---- MODULE Spec2Model ----
(* Model of src/streamlit_app.py, branch "Levenspiel Plot Analysis: CSTR +  *)
(* PFR in Series" (lines 63-111).  A Streamlit script is re-executed from   *)
(* top to bottom after every widget interaction, so each action below sets  *)
(* one widget and then performs the whole script run.                       *)
(*                                                                          *)
(* Numbers: a float is modelled as an exact rational <<n, d>> in lowest     *)
(* terms with d > 0, extended with the IEEE specials +inf = <<1,0>>,        *)
(* -inf = <<-1,0>> and nan = <<0,0>>.  Rounding error of binary floating    *)
(* point is abstracted away; division by zero, inf and nan are kept.        *)
EXTENDS Integers, Sequences, FiniteSets, TLC

(* ------------------------------------------------------------------ *)
(* Bounds of the explored input space                                   *)
(* ------------------------------------------------------------------ *)

\* most samples of a table the user builds column by column
MaxCols == 3

\* longest line (number of comma separated tokens) of a text typed freely
MaxTokens == 2

(* ------------------------------------------------------------------ *)
(* float64 arithmetic on extended rationals                             *)
(* ------------------------------------------------------------------ *)

Abs(n) == IF n < 0 THEN -n ELSE n

Sgn(n) == IF n < 0 THEN -1 ELSE IF n > 0 THEN 1 ELSE 0

RECURSIVE GCD(_, _)
GCD(a, b) == IF b = 0 THEN a ELSE GCD(b, a % b)

\* the float n/d; d = 0 gives +inf, -inf or nan by the sign of n
Norm(n, d) ==
  IF d = 0 THEN <<Sgn(n), 0>>
  ELSE LET s == IF d < 0 THEN -1 ELSE 1
           g == GCD(Abs(n), Abs(d))
       IN  <<(s * n) \div g, (s * d) \div g>>

NaN == <<0, 0>>

IsNaN(a) == a = NaN

IsInf(a) == a[2] = 0 /\ a[1] # 0

RNeg(a) == <<-a[1], a[2]>>

RAdd(a, b) ==
  IF IsNaN(a) \/ IsNaN(b) THEN NaN
  ELSE IF IsInf(a) /\ IsInf(b) THEN (IF a = b THEN a ELSE NaN)
  ELSE IF IsInf(a) THEN a
  ELSE IF IsInf(b) THEN b
  ELSE LET g == GCD(a[2], b[2])
           l == (a[2] \div g) * b[2]
       IN  Norm(a[1] * (l \div a[2]) + b[1] * (l \div b[2]), l)

RSub(a, b) == RAdd(a, RNeg(b))

\* inf * 0 = nan, inf * x = +-inf, nan * x = nan all follow from Norm
RMul(a, b) == Norm(a[1] * b[1], a[2] * b[2])

\* 1 / a; numpy gives 1 / 0.0 = inf (a RuntimeWarning, no exception)
RInv(a) == Norm(a[2], a[1])

RDiv(a, b) == RMul(a, RInv(b))

\* a < b; every comparison with nan is false
RLt(a, b) ==
  IF IsNaN(a) \/ IsNaN(b) THEN FALSE
  ELSE IF a[2] = 0 /\ b[2] = 0 THEN a[1] < b[1]
  ELSE a[1] * b[2] < b[1] * a[2]

RLe(a, b) == ~IsNaN(a) /\ ~IsNaN(b) /\ ~RLt(b, a)

RGt(a, b) == RLt(b, a)

RGe(a, b) == RLe(b, a)

Zero == <<0, 1>>

(* ------------------------------------------------------------------ *)
(* Text of the rate-data text area                                      *)
(* ------------------------------------------------------------------ *)

\* A text is the sequence of its lines, a line the sequence of its comma
\* separated tokens; the empty line is <<"">>.

\* the result of a float() call that raised ValueError
NotAFloat == <<>>

\* float(token) for the literals the model types; on every other token
\* (here "x" and the empty token) float() raises ValueError.
float(tok) ==
  CASE tok = "0.2" -> <<1, 5>>          [] tok = "0.5" -> <<1, 2>>
    [] tok = "0.8" -> <<4, 5>>          [] tok = "0.02" -> <<1, 50>>
    [] tok = "0.01" -> <<1, 100>>       [] tok = "0.005" -> <<1, 200>>
    [] tok = "-0.01" -> <<-1, 100>>     [] tok = "0.0" -> <<0, 1>>
    [] tok = "0.1" -> <<1, 10>>         [] tok = "0.3" -> <<3, 10>>
    [] tok = "0.4" -> <<2, 5>>          [] tok = "0.6" -> <<3, 5>>
    [] tok = "0.7" -> <<7, 10>>         [] tok = "0.85" -> <<17, 20>>
    [] tok = "0.0053" -> <<53, 10000>>  [] tok = "0.0052" -> <<13, 2500>>
    [] tok = "0.0045" -> <<9, 2000>>    [] tok = "0.004" -> <<1, 250>>
    [] tok = "0.0033" -> <<33, 10000>>  [] tok = "0.0025" -> <<1, 400>>
    [] tok = "0.0018" -> <<9, 5000>>    [] tok = "0.00125" -> <<1, 800>>
    [] tok = "0.001" -> <<1, 1000>>
    [] OTHER -> NotAFloat

default_text ==
  << <<"0.0", "0.1", "0.2", "0.3", "0.4", "0.5", "0.6", "0.7", "0.8", "0.85">>,
     <<"0.0053", "0.0052", "0.005", "0.0045", "0.004", "0.0033", "0.0025",
       "0.0018", "0.00125", "0.001">> >>

BlankLine == <<"">>

\* the text of an emptied text area: one blank line
EmptyText == <<BlankLine>>

RECURSIVE LStrip(_)
LStrip(lines) ==
  IF Len(lines) > 1 /\ Head(lines) = BlankLine THEN LStrip(Tail(lines))
  ELSE lines

RECURSIVE RStrip(_)
RStrip(lines) ==
  IF Len(lines) > 1 /\ lines[Len(lines)] = BlankLine
  THEN RStrip(SubSeq(lines, 1, Len(lines) - 1))
  ELSE lines

\* rate_input.strip().split('\n'): leading and trailing blank lines go
rows(text) == RStrip(LStrip(text))

\* list(map(float, line.split(',')))
MapFloat(line) == [i \in 1..Len(line) |-> float(line[i])]

\* did one of the float() calls raise?
MapRaises(vals) == \E i \in 1..Len(vals) : vals[i] = NotAFloat

\* a plausible slip: the frame is built without comparing the lengths
DataFrameNeverRaises(X_vals, rA_vals) == FALSE

\* pd.DataFrame({"X": X_vals, "-rA": rA_vals}) raises ValueError when the
\* two lists differ in length
DataFrameRaises(X_vals, rA_vals) == Len(X_vals) # Len(rA_vals)

\* the table of the except branch
FallbackTable == [X |-> << <<0, 1>> >>, rA |-> << <<1, 1000>> >>]

\* lines 78-85: [error |-> the except branch ran, df |-> the table]
Parse(text) ==
  LET r      == rows(text)
      X_vals == MapFloat(r[1])
      rA_vals == MapFloat(r[2])
      raises == \/ MapRaises(X_vals)             \* float(): ValueError
                \/ Len(r) < 2                    \* rows[1]: IndexError
                \/ MapRaises(rA_vals)            \* float(): ValueError
                \/ DataFrameRaises(X_vals, rA_vals)
  IN  IF raises THEN [error |-> TRUE, df |-> FallbackTable]
      ELSE [error |-> FALSE, df |-> [X |-> X_vals, rA |-> rA_vals]]

(* ------------------------------------------------------------------ *)
(* numpy: np.interp and np.trapz                                        *)
(* ------------------------------------------------------------------ *)

\* arrays are indexed from 0 as in the C source
At(arr, j) == arr[j + 1]

LIKELY_IN_CACHE_SIZE == 8

\* for (i = 1; i < len && key >= arr[i]; ++i);  the value of i at exit
RECURSIVE LinearSearch(_, _, _)
LinearSearch(key, arr, i) ==
  IF i < Len(arr) /\ RGe(key, At(arr, i)) THEN LinearSearch(key, arr, i + 1)
  ELSE i

\* while (imin < imax) { imid = imin + ((imax - imin) >> 1); ... }
RECURSIVE Bisect(_, _, _, _)
Bisect(key, arr, imin, imax) ==
  IF imin < imax
  THEN LET imid == imin + ((imax - imin) \div 2)
       IN  IF RGe(key, At(arr, imid)) THEN Bisect(key, arr, imid + 1, imax)
           ELSE Bisect(key, arr, imin, imid)
  ELSE imin

\* numpy's index search: j with arr[j] <= key < arr[j+1] on a sorted arr,
\* -1 below arr[0], len above arr[len-1].  On an unsorted arr it returns
\* whatever these comparisons lead to.
binary_search_with_guess(key, arr, guess0) ==
  LET len == Len(arr)
      g1  == IF guess0 > len - 3 THEN len - 3 ELSE guess0
      guess == IF g1 < 1 THEN 1 ELSE g1
  IN  IF RGt(key, At(arr, len - 1)) THEN len
      ELSE IF RLt(key, At(arr, 0)) THEN -1
      ELSE IF len <= 4 THEN LinearSearch(key, arr, 1) - 1
      ELSE IF RLt(key, At(arr, guess))
      THEN IF RLt(key, At(arr, guess - 1))
           THEN LET imax == guess - 1
                    imin == IF guess > LIKELY_IN_CACHE_SIZE
                               /\ RGe(key, At(arr, guess - LIKELY_IN_CACHE_SIZE))
                            THEN guess - LIKELY_IN_CACHE_SIZE ELSE 0
                IN  Bisect(key, arr, imin, imax) - 1
           ELSE guess - 1
      ELSE IF RLt(key, At(arr, guess + 1)) THEN guess
      ELSE IF RLt(key, At(arr, guess + 2)) THEN guess + 1
      ELSE LET imin == guess + 2
               imax == IF guess < len - LIKELY_IN_CACHE_SIZE - 1
                          /\ RLt(key, At(arr, guess + LIKELY_IN_CACHE_SIZE))
                       THEN guess + LIKELY_IN_CACHE_SIZE ELSE len
           IN  Bisect(key, arr, imin, imax) - 1

\* a plausible slip: the interior value is taken from the sample below x,
\* without the slope term
InterpAtNoSlope(x, xp, fp, j) ==
  IF j = -1 THEN At(fp, 0)
  ELSE IF j = Len(xp) THEN At(fp, Len(xp) - 1)
  ELSE At(fp, j)

\* a plausible slip: the line is anchored at the wrong end of the interval
\* and the shortcut for x on a sample is missing
InterpAtWrongAnchor(x, xp, fp, j) ==
  IF j = -1 THEN At(fp, 0)
  ELSE IF j = Len(xp) THEN At(fp, Len(xp) - 1)
  ELSE IF j = Len(xp) - 1 THEN At(fp, j)
  ELSE LET slope == RDiv(RSub(At(fp, j + 1), At(fp, j)),
                         RSub(At(xp, j + 1), At(xp, j)))
       IN  RAdd(RMul(slope, RSub(x, At(xp, j + 1))), At(fp, j))

\* the value np.interp gives for x once the search has returned j
InterpAt(x, xp, fp, j) ==
  IF j = -1 THEN At(fp, 0)                             \* lval
  ELSE IF j = Len(xp) THEN At(fp, Len(xp) - 1)         \* rval
  ELSE IF j = Len(xp) - 1 THEN At(fp, j)
  ELSE IF At(xp, j) = x THEN At(fp, j)
  ELSE LET slope == RDiv(RSub(At(fp, j + 1), At(fp, j)),
                         RSub(At(xp, j + 1), At(xp, j)))
       IN  RAdd(RMul(slope, RSub(x, At(xp, j))), At(fp, j))

\* np.interp([x], xp, fp)[0] with left = fp[0], right = fp[-1]
interp(x, xp, fp) ==
  IF Len(xp) = 1
  THEN (IF RLt(x, At(xp, 0)) THEN At(fp, 0)                 \* lval
        ELSE IF RGt(x, At(xp, 0)) THEN At(fp, Len(xp) - 1)  \* rval
        ELSE At(fp, 0))
  ELSE InterpAt(x, xp, fp, binary_search_with_guess(x, xp, 0))

\* does np.interp raise ValueError (empty xp, or fp and xp of unequal length)?
interp_raises(xp, fp) == Len(xp) = 0 \/ Len(xp) # Len(fp)

Two == <<2, 1>>

\* (d * (y[1:] + y[:-1]) / 2.0).sum() with d = diff(x), from term i on
RECURSIVE TrapzFrom(_, _, _)
TrapzFrom(y, x, i) ==
  IF i >= Len(x) THEN Zero
  ELSE RAdd(RDiv(RMul(RSub(x[i + 1], x[i]), RAdd(y[i + 1], y[i])), Two),
            TrapzFrom(y, x, i + 1))

trapz(y, x) == TrapzFrom(y, x, 1)

\* 1 / r_sub, elementwise
Reciprocal(r) == [i \in 1..Len(r) |-> RInv(r[i])]

(* ------------------------------------------------------------------ *)
(* Widgets                                                              *)
(* ------------------------------------------------------------------ *)

Rat(n, d) == Norm(n, d)

\* the values a slider offers: min_value + k * step, up to max_value
SliderValues(lo, hi, step) ==
  LET span == RDiv(RSub(hi, lo), step)
      n    == span[1] \div span[2]
  IN  { RAdd(lo, RMul(Rat(k, 1), step)) : k \in 0..n }

\* st.slider("Intermediate conversion ...", 0.1, 0.7, 0.3, step=0.1)
XIntMin == Rat(1, 10)

XIntMax == Rat(7, 10)

XIntStep == Rat(1, 10)

XIntDefault == Rat(3, 10)

XIntValues == SliderValues(XIntMin, XIntMax, XIntStep)

\* a plausible slip: the second slider starts at X_int itself
XFinalMinNoGap(xi) == xi

\* st.slider("Final conversion ...", X_int + 0.1, 0.9, 0.8, step=0.05)
XFinalMin(xi) == RAdd(xi, Rat(1, 10))

XFinalMax == Rat(9, 10)

XFinalStep == Rat(1, 20)

XFinalDefault == Rat(4, 5)

XFinalValues(xi) == SliderValues(XFinalMin(xi), XFinalMax, XFinalStep)

\* st.number_input(..., value=1.0): any float; the values the model enters
FA0Default == Rat(1, 1)

FA0Values == {Rat(1, 1), Rat(2, 1)}

(* ------------------------------------------------------------------ *)
(* One run of the script, lines 78-104                                  *)
(* ------------------------------------------------------------------ *)

\* the value of a name that was never assigned, or of an element without one
None == <<>>

Element(kind, value) == [kind |-> kind, value |-> value]

\* indices of the samples with X_int <= X <= X_final, in table order
RECURSIVE MaskFrom(_, _, _, _)
MaskFrom(X_array, xi, xf, i) ==
  IF i > Len(X_array) THEN <<>>
  ELSE (IF RGe(X_array[i], xi) /\ RLe(X_array[i], xf) THEN <<i>> ELSE <<>>)
       \o MaskFrom(X_array, xi, xf, i + 1)

mask(X_array, xi, xf) == MaskFrom(X_array, xi, xf, 1)

Take(arr, idx) == [k \in 1..Len(idx) |-> arr[idx[k]]]

\* a plausible slip: one selected sample is taken to be enough
EnoughPointsOffByOne(X_sub_) == Len(X_sub_) > 0

\* the guard of line 99
EnoughPoints(X_sub_) == Len(X_sub_) > 1

\* what st.error / st.write / st.warning have put on the page, in order
Page(err, enough, vcstr, vpfr) ==
  (IF err THEN <<Element("error", None)>> ELSE <<>>)
  \o (IF enough
      THEN <<Element("write_cstr", vcstr), Element("write_pfr", vpfr)>>
      ELSE <<Element("warning", None)>>)

\* the values of the script's names when the run ends
Result(df_, err, r, vcstr, xs, rs, vpfr) ==
  [df |-> df_, raised |-> "none", r_interp |-> r, V_cstr |-> vcstr,
   X_sub |-> xs, r_sub |-> rs, V_pfr |-> vpfr,
   page |-> Page(err, EnoughPoints(xs), vcstr, vpfr)]

\* lines 99-104
Integrate(df_, err, r, vcstr, xs, rs, fa0) ==
  Result(df_, err, r, vcstr, xs, rs,
         IF EnoughPoints(xs) THEN RMul(fa0, trapz(Reciprocal(rs), xs)) ELSE None)

\* lines 92-98, m being the mask
Select(df_, err, r, fa0, xi, m) ==
  Integrate(df_, err, r, RDiv(RMul(fa0, xi), r),
            Take(df_.X, m), Take(df_.rA, m), fa0)

\* lines 91-104 on the table of the try/except
Size(parsed, fa0, xi, xf) ==
  IF interp_raises(parsed.df.X, parsed.df.rA)
  THEN [df |-> parsed.df, raised |-> "ValueError", r_interp |-> None,
        V_cstr |-> None, X_sub |-> None, r_sub |-> None, V_pfr |-> None,
        page |-> IF parsed.error THEN <<Element("error", None)>> ELSE <<>>]
  ELSE Select(parsed.df, parsed.error,
              interp(xi, parsed.df.X, parsed.df.rA),
              fa0, xi, mask(parsed.df.X, xi, xf))

Run(text, fa0, xi, xf) == Size(Parse(text), fa0, xi, xf)

(* ------------------------------------------------------------------ *)
(* State                                                                *)
(* ------------------------------------------------------------------ *)

VARIABLES
  rate_input,   \* text of the st.text_area
  FA0,          \* st.number_input
  X_int,        \* first slider
  X_final,      \* second slider
  df,           \* the table, [X, rA]
  raised,       \* exception that ended the run, "none" if it completed
  r_interp,     \* rate interpolated at X_int
  V_cstr,
  X_sub,
  r_sub,
  V_pfr,        \* None when line 100 was not executed
  page          \* elements shown by st.error / st.write / st.warning, in order

vars == <<rate_input, FA0, X_int, X_final,
          df, raised, r_interp, V_cstr, X_sub, r_sub, V_pfr, page>>

\* the widgets take the given values and the script runs top to bottom
Rerun(text, fa0, xi, xf) ==
  \E o \in {Run(text, fa0, xi, xf)} :
      /\ rate_input' = text
      /\ FA0' = fa0
      /\ X_int' = xi
      /\ X_final' = xf
      /\ df' = o.df
      /\ raised' = o.raised
      /\ r_interp' = o.r_interp
      /\ V_cstr' = o.V_cstr
      /\ X_sub' = o.X_sub
      /\ r_sub' = o.r_sub
      /\ V_pfr' = o.V_pfr
      /\ page' = o.page

\* first run: every widget at its default value
Init ==
  LET o == Run(default_text, FA0Default, XIntDefault, XFinalDefault)
  IN  /\ rate_input = default_text
      /\ FA0 = FA0Default
      /\ X_int = XIntDefault
      /\ X_final = XFinalDefault
      /\ df = o.df
      /\ raised = o.raised
      /\ r_interp = o.r_interp
      /\ V_cstr = o.V_cstr
      /\ X_sub = o.X_sub
      /\ r_sub = o.r_sub
      /\ V_pfr = o.V_pfr
      /\ page = o.page

(* ------------------------------------------------------------------ *)
(* Actions: one widget interaction, then the rerun                      *)
(* ------------------------------------------------------------------ *)

SetFA0 ==
  \E v \in FA0Values :
    /\ v # FA0
    /\ Rerun(rate_input, v, X_int, X_final)

\* The second slider is declared with min_value = X_int + 0.1: moving the
\* first slider makes it a new widget, which starts at its default 0.8.
SetXInt ==
  \E v \in XIntValues :
    /\ v # X_int
    /\ Rerun(rate_input, FA0, v, XFinalDefault)

SetXFinal ==
  \E v \in XFinalValues(X_int) :
    /\ v # X_final
    /\ Rerun(rate_input, FA0, X_int, v)

\* the user deletes the whole text
ClearRateInput ==
  /\ rate_input # EmptyText
  /\ Rerun(EmptyText, FA0, X_int, X_final)

\* the user pastes the default text back
RestoreDefault ==
  /\ rate_input # default_text
  /\ Rerun(default_text, FA0, X_int, X_final)

\* the samples the user types when building a table: an X and its rate
Columns ==
  { <<"0.2", "0.02">>, <<"0.5", "0.01">>, <<"0.8", "0.005">>, <<"0.5", "-0.01">> }

IsTableText(text) ==
  /\ Len(text) = 2
  /\ Len(text[1]) = Len(text[2])
  /\ Len(text[1]) <= MaxCols

\* the user types one more sample: an X on line 1 and its rate on line 2
AppendColumn ==
  \E c \in Columns :
    \/ /\ rate_input = EmptyText
       /\ Rerun(<< <<c[1]>>, <<c[2]>> >>, FA0, X_int, X_final)
    \/ /\ IsTableText(rate_input)
       /\ Len(rate_input[1]) < MaxCols
       /\ Rerun(<< Append(rate_input[1], c[1]), Append(rate_input[2], c[2]) >>,
                FA0, X_int, X_final)

\* the user deletes the last sample
RemoveColumn ==
  /\ IsTableText(rate_input)
  /\ Len(rate_input[1]) > 1
  /\ Rerun(<< SubSeq(rate_input[1], 1, Len(rate_input[1]) - 1),
              SubSeq(rate_input[2], 1, Len(rate_input[2]) - 1) >>,
           FA0, X_int, X_final)

(* Free typing: the text area accepts any text.  These actions type it   *)
(* token by token and line by line.                                      *)

\* what the user types as one token: a number, or something that is none
TypedTokens == {"0.5", "x"}

\* a third line: a note, or just a trailing newline
ThirdLines == { <<"x">>, BlankLine }

IsFreeLine(line) ==
  /\ Len(line) <= MaxTokens
  /\ \A i \in 1..Len(line) : line[i] \in TypedTokens

IsFreeText(text) ==
  /\ Len(text) <= 3
  /\ \A i \in 1..Len(text) : i <= 2 => IsFreeLine(text[i])

ReplaceLine(text, i, line) == [text EXCEPT ![i] = line]

\* the user types one more token at the end of line 1 or 2
TypeToken ==
  \E t \in TypedTokens :
    \/ /\ rate_input = EmptyText
       /\ Rerun(<< <<t>> >>, FA0, X_int, X_final)
    \/ \E i \in 1..2 :
         /\ IsFreeText(rate_input)
         /\ i <= Len(rate_input)
         /\ Len(rate_input[i]) < MaxTokens
         /\ Rerun(ReplaceLine(rate_input, i, Append(rate_input[i], t)),
                  FA0, X_int, X_final)

\* the user deletes the last token of line 1 or 2
DeleteToken ==
  \E i \in 1..2 :
    /\ IsFreeText(rate_input)
    /\ i <= Len(rate_input)
    /\ Len(rate_input[i]) > 1
    /\ Rerun(ReplaceLine(rate_input, i,
                         SubSeq(rate_input[i], 1, Len(rate_input[i]) - 1)),
             FA0, X_int, X_final)

\* the user starts the second line, or adds a third one
TypeLine ==
  /\ IsFreeText(rate_input)
  /\ \/ /\ Len(rate_input) = 1
        /\ \E t \in TypedTokens :
             Rerun(Append(rate_input, <<t>>), FA0, X_int, X_final)
     \/ /\ Len(rate_input) = 2
        /\ \E l \in ThirdLines :
             Rerun(Append(rate_input, l), FA0, X_int, X_final)

\* the user deletes the last line
DeleteLine ==
  /\ IsFreeText(rate_input)
  /\ Len(rate_input) > 1
  /\ Rerun(SubSeq(rate_input, 1, Len(rate_input) - 1), FA0, X_int, X_final)

Next ==
  \/ SetFA0
  \/ SetXInt
  \/ SetXFinal
  \/ ClearRateInput
  \/ RestoreDefault
  \/ AppendColumn
  \/ RemoveColumn

Spec == Init /\ [][Next]_vars

\* the same program with the text typed freely
NextTyping ==
  \/ SetFA0
  \/ SetXInt
  \/ SetXFinal
  \/ ClearRateInput
  \/ RestoreDefault
  \/ TypeToken
  \/ DeleteToken
  \/ TypeLine
  \/ DeleteLine

SpecTyping == Init /\ [][NextTyping]_vars

(* ------------------------------------------------------------------ *)
(* Vocabulary of the properties                                         *)
(* ------------------------------------------------------------------ *)

\* an element of this kind is on the page
Shown(kind) == \E i \in 1..Len(page) : page[i].kind = kind

\* the value written by the element of this kind
Written(kind) == page[CHOOSE i \in 1..Len(page) : page[i].kind = kind].value

StrictlyIncreasing(X) == \A i \in 1..(Len(X) - 1) : RLt(X[i], X[i + 1])

\* indices of the table samples with X_int <= X <= X_final
Selected == { i \in 1..Len(df.X) : RLe(X_int, df.X[i]) /\ RLe(df.X[i], X_final) }

\* the sample of S that comes first in X order (the earlier one among equals)
First(S) ==
  CHOOSE i \in S : \A k \in S : RLt(df.X[i], df.X[k])
                                \/ (df.X[i] = df.X[k] /\ i <= k)

\* the samples of S in sorted X order
RECURSIVE InXOrder(_)
InXOrder(S) == IF S = {} THEN <<>> ELSE <<First(S)>> \o InXOrder(S \ {First(S)})

\* sum over consecutive samples of (x_{i+1} - x_i) * (1/rate_i + 1/rate_{i+1}) / 2
RECURSIVE TrapezoidSum(_)
TrapezoidSum(order) ==
  IF Len(order) < 2 THEN Zero
  ELSE LET i == order[1]
           k == order[2]
       IN  RAdd(RDiv(RMul(RSub(df.X[k], df.X[i]),
                          RAdd(RInv(df.rA[i]), RInv(df.rA[k]))), Two),
                TrapezoidSum(Tail(order)))

(* ------------------------------------------------------------------ *)
(* C1                                                                   *)
(* ------------------------------------------------------------------ *)

\* C1: whenever at least 2 table samples have X in [X_int, X_final], the
\* PFR volume is FA0 times the trapezoidal sum over exactly those samples,
\* taken in sorted X order.
C1_PfrIsSortedTrapezoid ==
  Cardinality(Selected) >= 2 =>
    /\ V_pfr = RMul(FA0, TrapezoidSum(InXOrder(Selected)))
    /\ Shown("write_pfr")
    /\ Written("write_pfr") = V_pfr

(* ------------------------------------------------------------------ *)
(* C2                                                                   *)
(* ------------------------------------------------------------------ *)

\* C2: if fewer than 2 table samples have X in [X_int, X_final], the run
\* ends with the warning and reports no volume, neither the PFR volume
\* nor the CSTR volume; no PFR volume is computed.
C2_TooFewPointsWarns ==
  Cardinality(Selected) < 2 =>
    /\ Shown("warning")
    /\ ~Shown("write_cstr")
    /\ ~Shown("write_pfr")
    /\ V_pfr = None

\* a table of several samples of which exactly one lies in the range
C2_Witness ==
  /\ Len(df.X) >= 2
  /\ Cardinality(Selected) = 1
  /\ page = <<Element("warning", None)>>

(* ------------------------------------------------------------------ *)
(* C3                                                                   *)
(* ------------------------------------------------------------------ *)

\* C3: whenever the rate interpolated at X_int is zero or negative, the
\* CSTR sizing fails with a division-by-zero error, and no CSTR volume is
\* produced or reported.
C3_NonPositiveRateFails ==
  (r_interp # None /\ RLe(r_interp, Zero)) =>
    /\ raised = "ZeroDivisionError"
    /\ V_cstr = None
    /\ ~Shown("write_cstr")

(* ------------------------------------------------------------------ *)
(* C4                                                                   *)
(* ------------------------------------------------------------------ *)

\* the value on the line through samples i and i+1 at x
OnLine(i, x) ==
  RAdd(df.rA[i],
       RDiv(RMul(RSub(df.rA[i + 1], df.rA[i]), RSub(x, df.X[i])),
            RSub(df.X[i + 1], df.X[i])))

\* C4: on a strictly increasing table of at least 2 samples, the rate at
\* X_int is the linear interpolation between the two adjacent samples that
\* bracket X_int; below the first sample it is the first sample's rate,
\* above the last sample the last sample's rate.
C4_InterpIsPiecewiseLinear ==
  (StrictlyIncreasing(df.X) /\ Len(df.X) >= 2) =>
    LET n == Len(df.X)
    IN  /\ RLt(X_int, df.X[1]) => r_interp = df.rA[1]
        /\ RGt(X_int, df.X[n]) => r_interp = df.rA[n]
        /\ (RLe(df.X[1], X_int) /\ RLe(X_int, df.X[n])) =>
             /\ \E i \in 1..(n - 1) : RLe(df.X[i], X_int) /\ RLe(X_int, df.X[i + 1])
             /\ \A i \in 1..(n - 1) :
                  (RLe(df.X[i], X_int) /\ RLe(X_int, df.X[i + 1]))
                    => r_interp = OnLine(i, X_int)

\* X_int halfway between the two samples of a table: the rate is the mean
C4_Witness ==
  /\ Len(df.X) = 2
  /\ StrictlyIncreasing(df.X)
  /\ df.rA[1] # df.rA[2]
  /\ X_int = RDiv(RAdd(df.X[1], df.X[2]), Two)
  /\ r_interp = RDiv(RAdd(df.rA[1], df.rA[2]), Two)

(* ------------------------------------------------------------------ *)
(* C5                                                                   *)
(* ------------------------------------------------------------------ *)

\* C5: the interpolation fails with DomainError whenever the table has
\* fewer than 2 samples (the fallback table, or a one-column table).
C5_ShortTableFails == Len(df.X) < 2 => raised = "DomainError"

(* ------------------------------------------------------------------ *)
(* C6                                                                   *)
(* ------------------------------------------------------------------ *)

\* C6: every table that reaches interpolation or integration has strictly
\* increasing X values, so no sizing result is computed from an unordered
\* or duplicate-X table.
C6_TableIsStrictlyIncreasing == raised = "none" => StrictlyIncreasing(df.X)

(* ------------------------------------------------------------------ *)
(* C7                                                                   *)
(* ------------------------------------------------------------------ *)

\* C7: on a strictly increasing table, interpolating at the X of any
\* sample returns exactly that sample's rate; in particular the rate the
\* run interpolates at X_int, when X_int is the X of a sample.
C7_InterpRoundTrip ==
  StrictlyIncreasing(df.X) =>
    \A i \in 1..Len(df.X) :
      /\ interp(df.X[i], df.X, df.rA) = df.rA[i]
      /\ X_int = df.X[i] => r_interp = df.rA[i]

\* X_int on the middle sample of a three-sample table with distinct rates
C7_Witness ==
  /\ Len(df.X) = 3
  /\ StrictlyIncreasing(df.X)
  /\ X_int = df.X[2]
  /\ df.rA[2] # df.rA[1]
  /\ df.rA[2] # df.rA[3]
  /\ r_interp = df.rA[2]

(* ------------------------------------------------------------------ *)
(* C8                                                                   *)
(* ------------------------------------------------------------------ *)

\* C8: every request whose volumes are calculated lies inside the table's
\* covered domain: min(table.X) <= X_int and X_final <= max(table.X).
C8_RequestInsideTable ==
  Shown("write_pfr") =>
    /\ \E i \in 1..Len(df.X) : RLe(df.X[i], X_int)
    /\ \E i \in 1..Len(df.X) : RLe(X_final, df.X[i])

(* ------------------------------------------------------------------ *)
(* C9                                                                   *)
(* ------------------------------------------------------------------ *)

\* C9: X_int is one of 0.1, 0.2, ..., 0.7 and X_final one of X_int + 0.1,
\* X_int + 0.15, ..., up to 0.9; X_int < X_final, both lie in [0, 1), and
\* the lower bound of the X_final slider never exceeds its upper bound.
C9_SlidersOrdered ==
  /\ \E k \in 1..7 : X_int = Norm(k, 10)
  /\ \E j \in 0..14 : X_final = RAdd(X_int, Norm(2 + j, 20))
  /\ RLe(X_final, Norm(9, 10))
  /\ RLt(X_int, X_final)
  /\ RLe(Zero, X_int)
  /\ RLt(X_final, Norm(1, 1))
  /\ RLe(XFinalMin(X_int), XFinalMax)

\* the first slider at its largest value, the second at its smallest
C9_Witness ==
  /\ X_int = Norm(7, 10)
  /\ X_final = Norm(8, 10)
  /\ XFinalMin(X_int) = X_final

(* ------------------------------------------------------------------ *)
(* C10                                                                  *)
(* ------------------------------------------------------------------ *)

\* does the line hold a token that is no number?
HasNonNumeric(line) == \E i \in 1..Len(line) : line[i] \in {"x", ""}

\* the numbers written on a line
Numbers(line) == [i \in 1..Len(line) |-> float(line[i])]

\* the lines of the text, leading and trailing blank lines aside
Lines == rows(rate_input)

ParsedAsTyped ==
  /\ ~Shown("error")
  /\ df.X = Numbers(Lines[1])
  /\ df.rA = Numbers(Lines[2])

FellBack ==
  /\ Shown("error")
  /\ df = [X |-> <<Zero>>, rA |-> <<Norm(1, 1000)>>]

\* C10 as stated: a text with fewer than two lines, with a non-numeric
\* token anywhere, or with two rows of different lengths gives the fallback
\* table and a parse error; every other text gives the table of its first
\* two lines and no error; X and rate sequences never differ in length.
C10_Original ==
  /\ Len(df.X) = Len(df.rA)
  /\ IF \/ Len(Lines) < 2
        \/ \E i \in 1..Len(Lines) : HasNonNumeric(Lines[i])
        \/ Len(Lines[1]) # Len(Lines[2])
     THEN FellBack
     ELSE ParsedAsTyped

\* C10 (amended): only the first two lines count.  A text with fewer than
\* two lines, with a non-numeric token on its first or second line, or with
\* first and second lines of different lengths gives the fallback table and
\* a parse error; every other text gives the table of its first two lines
\* and no error; X and rate sequences never differ in length.
C10_ParseOrFallback ==
  /\ Len(df.X) = Len(df.rA)
  /\ IF \/ Len(Lines) < 2
        \/ HasNonNumeric(Lines[1])
        \/ HasNonNumeric(Lines[2])
        \/ Len(Lines[1]) # Len(Lines[2])
     THEN FellBack
     ELSE ParsedAsTyped

\* two numeric lines followed by a line that is not numeric: parsed
C10_Witness ==
  /\ Len(rate_input) = 3
  /\ HasNonNumeric(rate_input[3])
  /\ rate_input[3] # BlankLine
  /\ ParsedAsTyped
  /\ Len(df.X) >= 2

====
